---- MODULE Spec2Model ----
(***************************************************************************)
(* Model of Lab1/cross_vessel_list_with_imo_skeleton.py:                   *)
(*   extract_imo             (CSV registry -> dict IMO -> MMSI)            *)
(*   get_text                (concatenated, stripped direct text nodes)    *)
(*   extract_ship_properties (registry x RDF/XML concepts)                 *)
(* Strings are sequences of one-character strings, DOM nodes are records   *)
(* with the minidom attributes the code reads (nodeType, tagName, data,    *)
(* childNodes).                                                            *)
(***************************************************************************)
EXTENDS Naturals, Sequences, FiniteSets, TLC

VARIABLES
    pc,           \* position of the running function
    error,        \* exception that left the entry point, "none" if none
    ret,          \* value returned by the entry point
    imo_rows,     \* rows csv.reader yields for imo_filename
    row_idx,      \* extract_imo: index of the next row of the for loop
    directory,    \* extract_imo: the dict being filled / the dict returned
    element,      \* get_text: the argument
    child_idx,    \* get_text: index of the next child of the for loop
    text,         \* get_text: the list of collected data strings
    xml_file,     \* what xml_vessel_filename holds: [status, root]
    dom,          \* extract_ship_properties: the parsed document
    new_set,      \* extract_ship_properties: the local result set
    members,      \* extract_ship_properties: the NodeList being iterated
    member_idx,   \* extract_ship_properties: index of the next member
    vessel_name,  \* extract_ship_properties: local of the loop body
    definition,   \* extract_ship_properties: local of the loop body
    stdout        \* lines printed so far

vars == <<pc, error, ret, imo_rows, row_idx, directory, element, child_idx,
          text, xml_file, dom, new_set, members, member_idx, vessel_name,
          definition, stdout>>

-----------------------------------------------------------------------------
(* Bounds of the explored inputs *)

MaxRows == 3
MaxChildren == 3
MaxRegRows == 2
MaxConcepts == 2

-----------------------------------------------------------------------------
(* Python values *)

None == [type |-> "NoneType"]
PyDict(d) == [type |-> "dict", value |-> d]
PyStr(s) == [type |-> "str", value |-> s]
NoValue == [type |-> "unset"]

EmptyDict == [k \in {} |-> ""]

SeqsUpTo(S, n) == UNION {[1..m -> S] : m \in 0..n}

-----------------------------------------------------------------------------
(* DOM nodes as minidom exposes them *)

TEXT_NODE == "TEXT_NODE"
ELEMENT_NODE == "ELEMENT_NODE"

TextNode(d) == [nodeType |-> TEXT_NODE, tagName |-> "#text", data |-> d, childNodes |-> <<>>]
Element(t, c) == [nodeType |-> ELEMENT_NODE, tagName |-> t, data |-> <<>>, childNodes |-> c]

\* the characters str.strip() removes, as far as the explored texts hold them
Whitespace == {" ", "\n"}

\* "".join(text)
RECURSIVE Join(_)
Join(parts) == IF parts = <<>> THEN <<>> ELSE Head(parts) \o Join(Tail(parts))

\* str.lstrip()
RECURSIVE LStrip(_)
LStrip(s) == IF s # <<>> /\ Head(s) \in Whitespace THEN LStrip(Tail(s)) ELSE s

\* str.rstrip()
RECURSIVE RStrip(_)
RStrip(s) ==
    IF s # <<>> /\ s[Len(s)] \in Whitespace THEN RStrip(SubSeq(s, 1, Len(s) - 1)) ELSE s

\* str.strip()
Strip(s) == RStrip(LStrip(s))

\* mutant: the text below child elements is collected too
CollectChild_descendants(collected, child) ==
    IF child.nodeType = TEXT_NODE THEN Append(collected, child.data)
    ELSE Append(collected, Join([j \in 1..Len(child.childNodes) |-> child.childNodes[j].data]))

\* one iteration of the for loop of get_text
CollectChild(collected, child) ==
    IF child.nodeType = TEXT_NODE THEN Append(collected, child.data) ELSE collected

\* the for loop of get_text over the children from index k on
RECURSIVE CollectFrom(_, _, _)
CollectFrom(collected, children, k) ==
    IF k > Len(children) THEN collected
    ELSE CollectFrom(CollectChild(collected, children[k]), children, k + 1)

\* the return statement of get_text
JoinStrip(collected) == Strip(Join(collected))

get_text(e) == JoinStrip(CollectFrom(<<>>, e.childNodes, 1))

-----------------------------------------------------------------------------
(* extract_imo *)

\* mutant: the first row is taken for a header and skipped
RowsRead_skipHeader(reader_rows) ==
    IF reader_rows = <<>> THEN reader_rows ELSE Tail(reader_rows)

\* the rows the for loop of extract_imo iterates: every row the reader yields
RowsRead(reader_rows) == reader_rows

\* mutant: an existing entry is kept (first occurrence wins)
Upsert_firstWins(dir, key, value) ==
    [k \in DOMAIN dir \cup {key} |-> IF k \in DOMAIN dir THEN dir[k] ELSE value]

\* directory[key] = value
Upsert(dir, key, value) ==
    [k \in DOMAIN dir \cup {key} |-> IF k = key THEN value ELSE dir[k]]

\* mutant: a short row is skipped
RowOutcome_skipShort(dir, row) ==
    IF Len(row) < 2
    THEN [error |-> "none", directory |-> dir]
    ELSE [error |-> "none", directory |-> Upsert(dir, row[1], row[2])]

\* directory[row[0]] = row[1]: the subscripts raise IndexError on a short row
RowOutcome(dir, row) ==
    IF Len(row) < 2
    THEN [error |-> "IndexError", directory |-> dir]
    ELSE [error |-> "none", directory |-> Upsert(dir, row[1], row[2])]

\* the whole of extract_imo, as its callers see it
RECURSIVE ImoLoop(_, _, _)
ImoLoop(dir, rows, k) ==
    IF k > Len(rows) THEN [error |-> "none", directory |-> dir]
    ELSE LET o == RowOutcome(dir, rows[k])
         IN  IF o.error # "none" THEN o ELSE ImoLoop(o.directory, rows, k + 1)

extract_imo(reader_rows) == ImoLoop(EmptyDict, RowsRead(reader_rows), 1)

-----------------------------------------------------------------------------
(* Inputs *)

ImoKeys == {"i1", "i2"}
Mmsis == {"m1", "m2"}
HeaderRow == <<"imo", "mmsi", "name">>

CsvRows ==
    {<<>>, HeaderRow}
    \cup {<<i>> : i \in ImoKeys}
    \cup {<<i, m>> : i \in ImoKeys, m \in Mmsis}
    \cup {<<i, m, "n">> : i \in ImoKeys, m \in Mmsis}

CsvFiles == SeqsUpTo(CsvRows, MaxRows)

TextData ==
    {<<>>, <<" ">>, <<"\n">>, <<"a">>, <<" ", "a">>, <<"a", "\n">>, <<"a", " ", "a">>}

ChildNodes ==
    {TextNode(d) : d \in TextData} \cup {Element("b", <<TextNode(<<"a">>)>>)}

Elements == {Element("e", c) : c \in SeqsUpTo(ChildNodes, MaxChildren)}

-----------------------------------------------------------------------------
(* extract_imo run on its own *)

InitImo ==
    /\ pc = "imo_loop"
    /\ error = "none"
    /\ ret = NoValue
    /\ imo_rows \in CsvFiles
    /\ row_idx = 1
    /\ directory = EmptyDict
    /\ element = NoValue
    /\ child_idx = 0
    /\ text = <<>>
    /\ xml_file = NoValue
    /\ dom = NoValue
    /\ new_set = {}
    /\ members = <<>>
    /\ member_idx = 0
    /\ vessel_name = NoValue
    /\ definition = NoValue
    /\ stdout = <<>>

ImoRowStep ==
    /\ pc = "imo_loop"
    /\ row_idx <= Len(RowsRead(imo_rows))
    /\ LET o == RowOutcome(directory, RowsRead(imo_rows)[row_idx])
       IN  /\ directory' = o.directory
           /\ error' = o.error
           /\ pc' = IF o.error = "none" THEN "imo_loop" ELSE "raised"
           /\ row_idx' = IF o.error = "none" THEN row_idx + 1 ELSE row_idx
    /\ UNCHANGED <<ret, imo_rows, element, child_idx, text, xml_file, dom, new_set,
                   members, member_idx, vessel_name, definition, stdout>>

ImoReturn ==
    /\ pc = "imo_loop"
    /\ row_idx > Len(RowsRead(imo_rows))
    /\ ret' = PyDict(directory)
    /\ pc' = "returned"
    /\ UNCHANGED <<error, imo_rows, row_idx, directory, element, child_idx, text,
                   xml_file, dom, new_set, members, member_idx, vessel_name,
                   definition, stdout>>

NextImo == ImoRowStep \/ ImoReturn

SpecImo == InitImo /\ [][NextImo]_vars

-----------------------------------------------------------------------------
(* get_text run on its own *)

InitText ==
    /\ pc = "text_loop"
    /\ error = "none"
    /\ ret = NoValue
    /\ imo_rows = <<>>
    /\ row_idx = 0
    /\ directory = EmptyDict
    /\ element \in Elements
    /\ child_idx = 1
    /\ text = <<>>
    /\ xml_file = NoValue
    /\ dom = NoValue
    /\ new_set = {}
    /\ members = <<>>
    /\ member_idx = 0
    /\ vessel_name = NoValue
    /\ definition = NoValue
    /\ stdout = <<>>

TextLoopStep ==
    /\ pc = "text_loop"
    /\ child_idx <= Len(element.childNodes)
    /\ text' = CollectChild(text, element.childNodes[child_idx])
    /\ child_idx' = child_idx + 1
    /\ UNCHANGED <<pc, error, ret, imo_rows, row_idx, directory, element, xml_file,
                   dom, new_set, members, member_idx, vessel_name, definition,
                   stdout>>

TextReturn ==
    /\ pc = "text_loop"
    /\ child_idx > Len(element.childNodes)
    /\ ret' = PyStr(JoinStrip(text))
    /\ pc' = "returned"
    /\ UNCHANGED <<error, imo_rows, row_idx, directory, element, child_idx, text,
                   xml_file, dom, new_set, members, member_idx, vessel_name,
                   definition, stdout>>

NextText == TextLoopStep \/ TextReturn

SpecText == InitText /\ [][NextText]_vars

-----------------------------------------------------------------------------
(* extract_ship_properties *)

\* minidom's _get_elements_by_tagName_helper: the elements below a node that
\* carry the tag, at any depth, in document order
RECURSIVE ElementsByTagName(_, _)
ElementsByTagName(children, name) ==
    IF children = <<>> THEN <<>>
    ELSE LET node == Head(children)
         IN  (IF node.nodeType = ELEMENT_NODE /\ node.tagName = name
              THEN <<node>> ELSE <<>>)
             \o ElementsByTagName(node.childNodes, name)
             \o ElementsByTagName(Tail(children), name)

GetElementsByTagName(node, name) == ElementsByTagName(node.childNodes, name)

Document(root) ==
    [nodeType |-> "DOCUMENT_NODE", tagName |-> "#document", data |-> <<>>,
     childNodes |-> <<root>>]

\* xml.dom.minidom.parse(xml_vessel_filename)
Parse(file) ==
    CASE file.status = "missing" -> [error |-> "FileNotFoundError", dom |-> NoValue]
      [] file.status = "malformed" -> [error |-> "ExpatError", dom |-> NoValue]
      [] OTHER -> [error |-> "none", dom |-> Document(file.root)]

\* what the handler prints: the f-string has already turned {0} and {1} into 0 and 1
ImportErrorLine == <<"0: import error: 1">>

\* mutant: only the guarded parse; the handler prints and execution goes on
ParseStatements_guardedOnly(file) ==
    LET second == Parse(file)
    IN  IF second.error \in {"FileNotFoundError", "ExpatError"}
        THEN [error |-> "none", dom |-> NoValue, out |-> ImportErrorLine]
        ELSE [error |-> "none", dom |-> second.dom, out |-> <<>>]

\* the unguarded parse, then the same parse inside try/except
ParseStatements(file) ==
    LET first == Parse(file)
    IN  IF first.error # "none"
        THEN [error |-> first.error, dom |-> NoValue, out |-> <<>>]
        ELSE LET second == Parse(file)
             IN  IF second.error \in {"FileNotFoundError", "ExpatError"}
                 THEN [error |-> "none", dom |-> first.dom, out |-> ImportErrorLine]
                 ELSE [error |-> "none", dom |-> second.dom, out |-> <<>>]

\* the node list the for statement iterates
ConceptsOf(d) == GetElementsByTagName(d, "skos:Concept")

\* member.getElementsByTagName("skos:prefLabel")
LabelsOf(member) == GetElementsByTagName(member, "skos:prefLabel")

\* member.getElementsByTagName("skos:definition")
DefinitionsOf(member) == GetElementsByTagName(member, "skos:definition")

\* json.loads(definition) on the explored definition texts: a text is a JSON
\* object when it is braced, and the token I1 (I2) is the member "IMO": "i1" ("i2")
ImoOfToken == [tok \in {"I1", "I2"} |-> IF tok = "I1" THEN "i1" ELSE "i2"]

IsJsonObject(t) == Len(t) >= 2 /\ t[1] = "{" /\ t[Len(t)] = "}"

HasImo(t) == IsJsonObject(t) /\ \E j \in 2..(Len(t) - 1) : t[j] \in DOMAIN ImoOfToken

JsonImo(t) == ImoOfToken[t[CHOOSE j \in 2..(Len(t) - 1) : t[j] \in DOMAIN ImoOfToken]]

\* mutant: a record is added for every definition, matched or not
BodyRecords_unfiltered(dir, name, defn) ==
    LET imo == IF HasImo(defn) THEN JsonImo(defn) ELSE ""
    IN  {<<imo, name, IF imo \in DOMAIN dir THEN dir[imo] ELSE "">>}

\* what one pass of the loop body adds to new_set: the body stops at print(definition)
BodyRecords(dir, name, defn) == {}

\* one pass of the loop body
LoopBody(dir, member) ==
    LET labels == LabelsOf(member)
        defs == DefinitionsOf(member)
    IN  IF labels = <<>>
        THEN [error |-> "IndexError", vessel_name |-> NoValue, definition |-> NoValue,
              out |-> <<>>, add |-> {}]
        ELSE LET name == get_text(labels[1])
             IN  IF defs = <<>>
                 THEN [error |-> "IndexError", vessel_name |-> PyStr(name),
                       definition |-> NoValue, out |-> <<>>, add |-> {}]
                 ELSE LET defn == get_text(defs[1])
                      IN  [error |-> "none", vessel_name |-> PyStr(name),
                           definition |-> PyStr(defn), out |-> <<defn>>,
                           add |-> BodyRecords(dir, name, defn)]

\* the value the call evaluates to when the for loop is exhausted: the function
\* has no return statement
FallOffEnd(result_set) == None

-----------------------------------------------------------------------------
(* Inputs of extract_ship_properties *)

ShipCsvRows == {<<"i1", "m1">>, <<"i1", "m2">>, <<"i1">>}

ShipCsvFiles == SeqsUpTo(ShipCsvRows, MaxRegRows)

PrefLabel(s) == Element("skos:prefLabel", <<TextNode(s)>>)
Definition(s) == Element("skos:definition", <<TextNode(s)>>)

\* definition texts: free text, a JSON object without IMO, {"IMO": "i1"}, {"IMO": "i2"}
DefTexts == {<<"O">>, <<"{", "}">>, <<"{", "I1", "}">>, <<"{", "I2", "}">>}

ShipNames == {<<"A">>, <<" ", "B">>}

NestedLabel == Element("skos:note", <<PrefLabel(<<"N">>)>>)

ConceptChildren ==
    {<<PrefLabel(n), Definition(d)>> : n \in ShipNames, d \in DefTexts}
    \cup {<<PrefLabel(<<"A">>)>>}
    \cup {<<Definition(<<"{", "I1", "}">>)>>}
    \cup {<<NestedLabel, PrefLabel(<<"A">>), Definition(<<"{", "I1", "}">>)>>}

Concepts == {Element("skos:Concept", c) : c \in ConceptChildren}

Member(c) == Element("skos:member", <<c>>)

MemberSeq(cs) == [j \in 1..Len(cs) |-> Member(cs[j])]

Collection(cs) ==
    Element("skos:Collection", <<PrefLabel(<<"C">>)>> \o MemberSeq(cs))

Root(cs) == Element("rdf:RDF", <<Collection(cs)>>)

XmlFiles ==
    {[status |-> "ok", root |-> Root(cs)] : cs \in SeqsUpTo(Concepts, MaxConcepts)}
    \cup {[status |-> "missing", root |-> NoValue],
          [status |-> "malformed", root |-> NoValue]}

-----------------------------------------------------------------------------
(* extract_ship_properties run *)

Init ==
    /\ pc = "call_extract_imo"
    /\ error = "none"
    /\ ret = NoValue
    /\ imo_rows \in ShipCsvFiles
    /\ row_idx = 0
    /\ directory = EmptyDict
    /\ element = NoValue
    /\ child_idx = 0
    /\ text = <<>>
    /\ xml_file \in XmlFiles
    /\ dom = NoValue
    /\ new_set = {}
    /\ members = <<>>
    /\ member_idx = 0
    /\ vessel_name = NoValue
    /\ definition = NoValue
    /\ stdout = <<>>

\* dictionary = extract_imo(imo_filename); new_set = set()
CallExtractImo ==
    /\ pc = "call_extract_imo"
    /\ LET o == extract_imo(imo_rows)
       IN  /\ error' = o.error
           /\ directory' = IF o.error = "none" THEN o.directory ELSE directory
           /\ pc' = IF o.error = "none" THEN "parse" ELSE "raised"
    /\ new_set' = {}
    /\ UNCHANGED <<ret, imo_rows, row_idx, element, child_idx, text, xml_file, dom,
                   members, member_idx, vessel_name, definition, stdout>>

\* the two parse statements and the evaluation of the for statement's iterable
ParseDocument ==
    /\ pc = "parse"
    /\ LET o == ParseStatements(xml_file)
       IN  /\ stdout' = stdout \o o.out
           /\ dom' = o.dom
           /\ IF o.error # "none"
              THEN /\ error' = o.error
                   /\ pc' = "raised"
                   /\ UNCHANGED <<members, member_idx>>
              ELSE IF o.dom = NoValue
              THEN /\ error' = "UnboundLocalError"
                   /\ pc' = "raised"
                   /\ UNCHANGED <<members, member_idx>>
              ELSE /\ members' = ConceptsOf(o.dom)
                   /\ member_idx' = 1
                   /\ pc' = "loop"
                   /\ UNCHANGED error
    /\ UNCHANGED <<ret, imo_rows, row_idx, directory, element, child_idx, text,
                   xml_file, new_set, vessel_name, definition>>

\* one iteration of the for loop
VisitConcept ==
    /\ pc = "loop"
    /\ member_idx <= Len(members)
    /\ LET o == LoopBody(directory, members[member_idx])
       IN  /\ vessel_name' = IF o.vessel_name = NoValue THEN vessel_name ELSE o.vessel_name
           /\ definition' = IF o.definition = NoValue THEN definition ELSE o.definition
           /\ stdout' = stdout \o o.out
           /\ new_set' = new_set \cup o.add
           /\ error' = o.error
           /\ pc' = IF o.error = "none" THEN "loop" ELSE "raised"
           /\ member_idx' = IF o.error = "none" THEN member_idx + 1 ELSE member_idx
    /\ UNCHANGED <<ret, imo_rows, row_idx, directory, element, child_idx, text,
                   xml_file, dom, members>>

\* the loop is exhausted and the function body ends
EndOfFunction ==
    /\ pc = "loop"
    /\ member_idx > Len(members)
    /\ ret' = FallOffEnd(new_set)
    /\ pc' = "returned"
    /\ UNCHANGED <<error, imo_rows, row_idx, directory, element, child_idx, text,
                   xml_file, dom, new_set, members, member_idx, vessel_name,
                   definition, stdout>>

Next == CallExtractImo \/ ParseDocument \/ VisitConcept \/ EndOfFunction

Spec == Init /\ [][Next]_vars

-----------------------------------------------------------------------------
(* Vocabulary of the properties *)

\* field 0 of every row that has one
FieldZero(rows) == {rows[j][1] : j \in {l \in 1..Len(rows) : Len(rows[l]) >= 1}}

IsText(n) == n.nodeType = TEXT_NODE

RECURSIVE ConcatData(_)
ConcatData(nodes) ==
    IF nodes = <<>> THEN <<>> ELSE Head(nodes).data \o ConcatData(Tail(nodes))

\* the data of the direct text-node children, in document order
DirectText(e) == ConcatData(SelectSeq(e.childNodes, IsText))

\* r is s without its leading and trailing whitespace
IsStripOf(r, s) ==
    \E a \in 0..Len(s), b \in 0..Len(s) :
        /\ a + b <= Len(s)
        /\ r = SubSeq(s, a + 1, Len(s) - b)
        /\ \A i \in 1..a : s[i] \in Whitespace
        /\ \A i \in (Len(s) - b + 1)..Len(s) : s[i] \in Whitespace
        /\ r # <<>> => (r[1] \notin Whitespace /\ r[Len(r)] \notin Whitespace)

\* the child elements of a node that carry the tag
DirectChildren(node, name) ==
    SelectSeq(node.childNodes, LAMBDA n : n.nodeType = ELEMENT_NODE /\ n.tagName = name)

RecordsOf(value) == IF value.type = "set" THEN value.value ELSE {}

RegistryLoads == extract_imo(imo_rows).error = "none"

\* the concept's definition is a JSON object whose IMO is a key of the registry
Matched(m) ==
    LET defs == DirectChildren(m, "skos:definition")
    IN  /\ defs # <<>>
        /\ HasImo(get_text(defs[1]))
        /\ JsonImo(get_text(defs[1])) \in DOMAIN directory

\* record r is the join of concept m with the registry
Justifies(m, r) ==
    LET defs == DirectChildren(m, "skos:definition")
        labels == DirectChildren(m, "skos:prefLabel")
    IN  /\ Matched(m)
        /\ labels # <<>>
        /\ r = <<JsonImo(get_text(defs[1])), get_text(labels[1]),
                 directory[JsonImo(get_text(defs[1]))]>>

-----------------------------------------------------------------------------
(* Properties *)

\* C1: the mapping extract_imo returns maps every key to field 1 of the last row
\* of the file that carries the key in field 0
C1_LastWins ==
    pc = "returned" =>
        \A j \in 1..Len(imo_rows) :
            (\A l \in (j + 1)..Len(imo_rows) : imo_rows[l][1] # imo_rows[j][1])
            => /\ imo_rows[j][1] \in DOMAIN ret.value
               /\ ret.value[imo_rows[j][1]] = imo_rows[j][2]

C1_Witness ==
    /\ pc = "returned"
    /\ \E j, l \in 1..Len(imo_rows) :
        /\ j < l
        /\ imo_rows[j][1] = imo_rows[l][1]
        /\ imo_rows[j][2] # imo_rows[l][2]

C3_ReturnsSet ==
    pc = "returned" => (ret.type = "set" /\ \A r \in ret.value : Len(r) = 3)

\* C4: every concept whose JSON definition has an IMO that is a registry key has
\* its record (imo, name, registry[imo]) in the result
C4_Completeness ==
    pc = "returned" =>
        \A j \in 1..Len(members) :
            (Matched(members[j]) /\ DirectChildren(members[j], "skos:prefLabel") # <<>>)
            => \E r \in RecordsOf(ret) : Justifies(members[j], r)

C7_DocumentParseError ==
    (xml_file.status # "ok" /\ RegistryLoads /\ pc \notin {"call_extract_imo", "parse"})
    => /\ pc = "raised"
       /\ error = "DocumentParseError"
       /\ member_idx = 0
       /\ ret = NoValue

\* C7 as the code has it: a missing or malformed document ends the run with the
\* parser's own error (FileNotFoundError, ExpatError), not caught and not
\* reported on stdout, no concept visited and nothing returned
C7_UnderlyingError ==
    (xml_file.status # "ok" /\ RegistryLoads /\ pc \notin {"call_extract_imo", "parse"})
    => /\ pc = "raised"
       /\ error = (IF xml_file.status = "missing" THEN "FileNotFoundError" ELSE "ExpatError")
       /\ stdout = <<>>
       /\ member_idx = 0
       /\ ret = NoValue

C7_Witness ==
    /\ xml_file.status = "malformed"
    /\ pc = "raised"
    /\ error = "ExpatError"

\* C8: the name taken for a concept is the text of the preferred label that is
\* a direct child of the concept
C8_NameIsDirectChild ==
    (pc \in {"loop", "returned"} /\ member_idx > 1)
    => LET labels == DirectChildren(members[member_idx - 1], "skos:prefLabel")
       IN  labels # <<>> => vessel_name = PyStr(get_text(labels[1]))

\* C9: get_text returns the data of the direct text-node children, concatenated
\* in document order and stripped; the empty string when there is none
C9_GetText ==
    pc = "returned" =>
        /\ IsStripOf(ret.value, DirectText(element))
        /\ SelectSeq(element.childNodes, IsText) = <<>> => ret.value = <<>>

C9_Witness ==
    /\ pc = "returned"
    /\ \E j \in 1..Len(element.childNodes) : ~IsText(element.childNodes[j])
    /\ Len(SelectSeq(element.childNodes, IsText)) >= 2
    /\ ret.value # <<>>
    /\ ret.value # DirectText(element)

\* C10 as stated: a row with fewer than 2 fields is skipped or raises
\* MalformedRowError, never another error
C10_SkipOrMalformedRowError ==
    pc = "raised" => error = "MalformedRowError"

\* C10 as the code has it: the first row with fewer than 2 fields ends
\* extract_imo with IndexError, nothing is returned, and a mapping is returned
\* only for a file without such a row
C10_IndexError ==
    /\ pc = "raised" =>
        /\ error = "IndexError"
        /\ Len(imo_rows[row_idx]) < 2
        /\ \A j \in 1..(row_idx - 1) : Len(imo_rows[j]) >= 2
        /\ ret = NoValue
    /\ pc = "returned" => \A j \in 1..Len(imo_rows) : Len(imo_rows[j]) >= 2

C10_Witness ==
    /\ pc = "raised"
    /\ error = "IndexError"
    /\ row_idx > 1
    /\ imo_rows[row_idx] = <<>>

====
